---- MODULE Spec2Model ----
(***************************************************************************)
(* Frame synchronizer and decoder of the PICTURE-D thermo client           *)
(* (thermo_client_read).  Two revisions of thermo_client.c are in the      *)
(* repository:                                                             *)
(*   rev = "fd"   : src/thermo-client/thermo_client.c, lines 67-148; the   *)
(*                  reader gets a bare descriptor and always scans;        *)
(*   rev = "desc" : the revision stored in src/thermo-client/Makefile,     *)
(*                  lines 91-206; the reader gets a thermal_port_s with    *)
(*                  the synced flag (Scanning = 0, Locked = 1).            *)
(* A byte is a one-character string.  The device's byte stream is chosen   *)
(* in Init; bytes reach the kernel buffer through Arrive and leave it      *)
(* through the reads of thermo_client_read (specification Spec).           *)
(* The reconnect loop of main (src/thermo-client/console.c, lines 78-135)  *)
(* with thermo_client_init and the descriptor table is specification       *)
(* SpecMain.                                                               *)
(***************************************************************************)
EXTENDS Integers, Sequences, FiniteSets, TLC

VARIABLES
    rev,        \* which revision of thermo_client.c is linked
    stream,     \* every byte the device sends during this behaviour
    arrived,    \* number of bytes of stream that reached the tty buffer
    pos,        \* number of bytes of stream consumed by read(2)
    link,       \* "up", or "down" once the line has hung up or failed
    running,    \* the caller's volatile sig_atomic_t cancellation flag
    synced,     \* desc->synced (stays 0 in revision "fd")
    pc,         \* position of the reader inside thermo_client_read
    index,      \* local: int index
    bytes_read, \* local: ssize_t bytes_read of the Locked accumulation
    buffer,     \* local: uint8_t buffer[16] of the Locked accumulation
    data,       \* the caller's thermal_data_s
    ret,        \* value returned by the last completed call
    nDec,       \* history: frames decoded into data during the current call
    decBuf,     \* history: the bytes the last decode of this call worked on
    decLen,     \* history: how many of decBuf's bytes were received from the tty
    entrySync,  \* history: synced at call entry
    entryRun,   \* history: running at call entry
    waits,      \* history: bounded waits that ended empty with running = 0
    desyncPos,  \* history: pos at the last marker mismatch of a Locked read, -1 before
    shortReads, \* history: payload reads that returned fewer than 10 bytes
    partial,    \* history: a read of this Locked accumulation came back short
    entryData,  \* history: the caller's record at call entry
    ioErr,      \* history: a poll or read of this call reported an error
    hups,       \* history: reads of this call that met the hung-up line as 0 bytes
    polled,     \* history: poll reported POLLIN and no read has used it yet
    mpc,        \* position of main (console.c)
    fd,         \* main's local: int fd
    thermo_fd,  \* console.c's global: int thermo_fd
    init_fd,    \* thermo_client_init's local: int fd, -1 outside the call
    desc_fd,    \* desc->fd (revision "desc"), -1 before the first init
    openFds,    \* the process's open descriptors
    preOpen,    \* history: openFds when thermo_client_init was entered
    preDesc,    \* history: <<desc->fd, desc->synced>> at that moment
    badClose,   \* history: values given to close(2) that were not open
    tpc,        \* position of the input thread (read_input of console.c)
    badWrite    \* history: values given to write(2) that were not an open port

vars == <<rev, stream, arrived, pos, link, running, synced, pc, index, bytes_read,
          buffer, data, ret, nDec, decBuf, decLen, entrySync, entryRun, waits,
          desyncPos, shortReads, partial, entryData, ioErr, hups, polled,
          mpc, fd, thermo_fd, init_fd, desc_fd, openFds, preOpen, preDesc,
          badClose, tpc, badWrite>>

\* the caller's side: main and the descriptor table
mainv == <<mpc, fd, thermo_fd, init_fd, desc_fd, openFds, preOpen, preDesc,
           badClose, tpc, badWrite>>

\* the input thread
thr == <<tpc, badWrite>>

hist == <<nDec, decBuf, decLen, entrySync, entryRun, waits, desyncPos,
          shortReads, partial, entryData>>

\* history of the descriptor operations of the current call
sys == <<ioErr, hups, polled>>

----------------------------------------------------------------------------
(* Program constants *)

pattern == <<"C", "H", "R", "I", "S", ",">>
pattern_length == 6
PayloadLen == 10
FrameLen == 16
Nul == "0"

(* Bounds of the model *)
MaxWaits == 2
MaxRx == 16
MaxHups == 2
MaxFd == 5

Min(a, b) == IF a < b THEN a ELSE b

----------------------------------------------------------------------------
(* The frames and streams the device may send *)

Frame(kind, sep, src, val) == pattern \o <<kind, sep>> \o src \o val

Corrupt(f, p) == [f EXCEPT ![p] = "#"]

SrcA == <<"a", "b", "c", "d">>
SrcB == <<"e", "f", "g", "h">>
ValW == <<"w", "x", "y", "z">>
ValC == <<"w", "x", "y", "C">>

FT == Frame("T", ",", SrcA, ValW)
FC == Frame("H", ",", SrcA, ValC)
FX == Frame("X", ",", SrcA, ValW)
FS == Frame("T", ";", SrcB, ValW)

GoodFrames == {FT, FC}
Garbage == {<<>>, <<"X">>, <<"C">>, <<"X", "C", "H">>}
CorruptFrames == {Corrupt(FC, p) : p \in 1..pattern_length}

\* a marker whose frame never came, directly followed by a complete frame
TornStreams == {pattern \o FT}

\* garbage, then one frame
ScanStreams ==
    {g \o f : g \in Garbage, f \in GoodFrames \cup {FX, FS}} \cup TornStreams

\* frames back to back: the first locks the reader, the others meet it Locked
LockStreams ==
    {f1 \o f2 : f1 \in GoodFrames, f2 \in GoodFrames \cup {FX, FS}}
    \cup {FT \o c : c \in CorruptFrames}
    \cup {FT \o FT \o FC}
    \cup {FT \o Corrupt(FC, 1) \o FC \o FC}

Streams == ScanStreams \cup LockStreams

----------------------------------------------------------------------------
(* The tty buffer and read(2) under VMIN = 0, VTIME = 1 *)

rx == SubSeq(stream, pos + 1, arrived)

\* read(fd, buf, want): what is buffered, at most want bytes; nothing after the
\* 100 ms timer when the buffer is empty; nothing (end of file) on a line that
\* has hung up, whose buffer the hangup flushed
ReadN(want) ==
    IF link = "down" THEN <<>> ELSE SubSeq(rx, 1, Min(want, Len(rx)))

\* history: one more read that met the hung-up line, counted to MaxHups
Eof(h) == IF link = "down" THEN Min(h + 1, MaxHups) ELSE h

Zeros == [i \in 1..FrameLen |-> Nul]

\* the caller's record before the first decode; no action reads it
NoData == [type |-> Nul, source |-> <<>>, value |-> <<>>]

\* decode of the 10-byte payload read after a marker match
DecodePayload(b) ==
    [type |-> b[1], source |-> SubSeq(b, 3, 6), value |-> SubSeq(b, 7, 10)]

\* DecodeLocked with the source copied from buffer + ofst + 1: the separator
\* taken as the first source byte
DecodeLockedShifted(b) ==
    LET ofst == Len(pattern)
    IN  [type |-> b[ofst + 1],
         source |-> SubSeq(b, ofst + 2, ofst + 5),
         value |-> SubSeq(b, ofst + 7, ofst + 10)]

\* decode of the 16-byte buffer of the Locked read (ofst = strlen(pattern))
DecodeLocked(b) ==
    LET ofst == Len(pattern)
    IN  [type |-> b[ofst + 1],
         source |-> SubSeq(b, ofst + 3, ofst + 6),
         value |-> SubSeq(b, ofst + 7, ofst + 10)]

\* FirstMismatch looking at the first marker byte only
FirstMismatchOneByte(b) == IF b[1] # pattern[1] THEN 1 ELSE 0

\* index of the first marker byte the buffer gets wrong, 0 when all six match
FirstMismatch(b) ==
    IF \E i \in 1..Len(pattern) : b[i] # pattern[i]
    THEN CHOOSE i \in 1..Len(pattern) :
            /\ b[i] # pattern[i]
            /\ \A j \in 1..(i - 1) : b[j] = pattern[j]
    ELSE 0

\* history: one more empty bounded wait after cancellation, counted to MaxWaits
Bump(w) == IF running = 0 THEN Min(w + 1, MaxWaits) ELSE w

----------------------------------------------------------------------------
\* stdin, stdout, stderr
Std == 0..2

\* the reader before its first call, nothing received yet
ReaderInit ==
    /\ arrived = 0
    /\ pos = 0
    /\ link = "up"
    /\ running = 1
    /\ synced = 0
    /\ pc = "init"
    /\ index = 0
    /\ bytes_read = 0
    /\ buffer = Zeros
    /\ data = NoData
    /\ ret = 0
    /\ nDec = 0
    /\ decBuf = <<>>
    /\ decLen = 0
    /\ entrySync = 0
    /\ entryRun = 1
    /\ waits = 0
    /\ desyncPos = -1
    /\ shortReads = 0
    /\ partial = FALSE
    /\ entryData = NoData
    /\ ioErr = FALSE
    /\ hups = 0
    /\ polled = FALSE

\* the port is open as the first free descriptor and main is in its read loop
Init ==
    /\ rev \in {"fd", "desc"}
    /\ stream \in IF rev = "fd" THEN ScanStreams ELSE Streams
    /\ ReaderInit
    /\ mpc = "read"
    /\ fd = 3
    /\ thermo_fd = 3
    /\ init_fd = -1
    /\ desc_fd = 3
    /\ openFds = Std \cup {3}
    /\ preOpen = Std
    /\ preDesc = <<-1, 0>>
    /\ badClose = {}
    /\ tpc = "input"
    /\ badWrite = {}

\* return statement: the call ends with value r and its locals die
Return(r) ==
    /\ pc' = "ret"
    /\ ret' = r
    /\ index' = 0
    /\ bytes_read' = 0
    /\ buffer' = Zeros

(* Environment *)

\* the device's next byte reaches the tty buffer
Arrive ==
    /\ link = "up"
    /\ arrived < Len(stream)
    /\ arrived - pos < MaxRx
    /\ arrived' = arrived + 1
    /\ UNCHANGED <<mainv, rev, stream, pos, link, running, synced, pc, index,
                   bytes_read, buffer, data, ret, hist, sys>>

\* the line hangs up or fails (cable pulled, device reset)
LinkDown ==
    /\ link = "up"
    /\ link' = "down"
    /\ UNCHANGED <<mainv, rev, stream, arrived, pos, running, synced, pc, index,
                   bytes_read, buffer, data, ret, hist, sys>>

\* sighandler, or "/quit" in the console's input thread: running = 0
Cancel ==
    /\ running = 1
    /\ running' = 0
    /\ UNCHANGED <<mainv, rev, stream, arrived, pos, link, synced, pc, index,
                   bytes_read, buffer, data, ret, hist, sys>>

(* thermo_client_read *)

\* the caller enters thermo_client_read on an open descriptor with a record
\* to fill (fd >= 0, data != NULL): index = 0, bytes_read = 0
Call ==
    /\ pc \in {"init", "ret"}
    /\ pc' = "loop"
    /\ index' = 0
    /\ bytes_read' = 0
    /\ ret' = 0
    /\ nDec' = 0
    /\ decBuf' = <<>>
    /\ decLen' = 0
    /\ entrySync' = synced
    /\ entryRun' = running
    /\ waits' = 0
    /\ partial' = FALSE
    /\ entryData' = data
    /\ ioErr' = FALSE
    /\ hups' = 0
    /\ polled' = FALSE
    /\ UNCHANGED <<mainv, rev, stream, arrived, pos, link, running, synced, buffer,
                   data, desyncPos, shortReads>>

\* while (running): the pointer is tested, never the flag
LoopCheckFd ==
    /\ rev = "fd"
    /\ pc = "loop"
    /\ pc' = "poll"
    /\ UNCHANGED <<mainv, rev, stream, arrived, pos, link, running, synced, index,
                   bytes_read, buffer, data, ret, hist, sys>>

\* while (*running) ... return 1 after the loop
LoopCheckDesc ==
    /\ rev = "desc"
    /\ pc = "loop"
    /\ IF running = 0
       THEN Return(1)
       ELSE /\ pc' = "poll"
            /\ UNCHANGED <<ret, index, bytes_read, buffer>>
    /\ UNCHANGED <<mainv, rev, stream, arrived, pos, link, running, synced, data,
                   hist, sys>>

\* poll(&pfd, 1, 100) < 0: EINTR, the signal whose handler clears running
PollFail ==
    /\ pc = "poll"
    /\ running = 0
    /\ Return(-1)
    /\ UNCHANGED <<mainv, rev, stream, arrived, pos, link, running, synced, data,
                   hist, hups, polled>>
    /\ ioErr' = TRUE

\* poll(&pfd, 1, 100) == 0: nothing buffered for 100 ms
PollTimeout ==
    /\ pc = "poll"
    /\ link = "up"
    /\ Len(rx) = 0
    /\ pc' = "loop"
    /\ waits' = Bump(waits)
    /\ UNCHANGED <<mainv, rev, stream, arrived, pos, link, running, synced, index,
                   bytes_read, buffer, data, ret, nDec, decBuf, decLen,
                   entrySync, entryRun, desyncPos, shortReads, partial,
                   entryData, sys>>

\* pfd.revents & (POLLERR | POLLHUP)
PollHup ==
    /\ pc = "poll"
    /\ link = "down"
    /\ Return(-1)
    /\ UNCHANGED <<mainv, rev, stream, arrived, pos, link, running, synced, data,
                   hist, hups, polled>>
    /\ ioErr' = TRUE

\* POLLIN: the scan (synced = 0) or the Locked accumulation (synced = 1)
\* follows; synced holds no other value, so the last else is never taken
PollIn ==
    /\ pc = "poll"
    /\ link = "up"
    /\ Len(rx) > 0
    /\ IF synced = 0
       THEN /\ pc' = "scan"
            /\ UNCHANGED <<bytes_read, buffer>>
       ELSE /\ pc' = "lkloop"
            /\ bytes_read' = 0
            /\ buffer' = Zeros
    /\ partial' = FALSE
    /\ polled' = TRUE
    /\ UNCHANGED <<mainv, rev, stream, arrived, pos, link, running, synced, index,
                   data, ret, nDec, decBuf, decLen, entrySync, entryRun, waits,
                   desyncPos, shortReads, entryData, ioErr, hups>>

\* read(fd, &check, 1) < 0
ScanReadErr ==
    /\ pc = "scan"
    /\ link = "down"
    /\ Return(-1)
    /\ UNCHANGED <<mainv, rev, stream, arrived, pos, link, running, synced, data,
                   hist, hups, polled>>
    /\ ioErr' = TRUE

\* NextIndex with an overlap-aware restart: a mismatching byte that equals
\* the first marker byte starts a new match
NextIndexOverlap(idx, check) ==
    IF check = pattern[idx + 1] THEN idx + 1
    ELSE IF check = pattern[1] THEN 1 ELSE 0

\* if (check == pattern[index]) index++; else index = 0;
NextIndex(idx, check) == IF check = pattern[idx + 1] THEN idx + 1 ELSE 0

\* read(fd, &check, 1) and the comparison with pattern[index]
ScanRead ==
    /\ pc = "scan"
    /\ LET got == ReadN(1)
       IN  IF Len(got) = 0
           THEN /\ pc' = "loop"
                /\ waits' = Bump(waits)
                /\ UNCHANGED <<pos, index>>
           ELSE LET check == got[1]
                    idx == NextIndex(index, check)
                IN  /\ pos' = pos + 1
                    /\ index' = idx
                    /\ pc' = IF idx = pattern_length THEN "payload" ELSE "loop"
                    /\ UNCHANGED waits
    /\ hups' = Eof(hups)
    /\ polled' = FALSE
    /\ UNCHANGED <<mainv, rev, stream, arrived, link, running, synced, bytes_read,
                   buffer, data, ret, nDec, decBuf, decLen, entrySync, entryRun,
                   desyncPos, shortReads, partial, entryData, ioErr>>

\* PayloadErr with the failed read taken as a short one: return 0
PayloadErrAsShort ==
    /\ pc = "payload"
    /\ link = "down"
    /\ Return(0)
    /\ UNCHANGED <<mainv, rev, stream, arrived, pos, link, running, synced, data,
                   hist, hups, polled>>
    /\ ioErr' = TRUE

\* read(fd, buffer, 10) < 0 after the marker
PayloadErr ==
    /\ pc = "payload"
    /\ link = "down"
    /\ Return(-1)
    /\ UNCHANGED <<mainv, rev, stream, arrived, pos, link, running, synced, data,
                   hist, hups, polled>>
    /\ ioErr' = TRUE

\* Incomplete without the look at the separator
IncompleteShortOnly(got) == Len(got) < PayloadLen

\* if (bytes_read < 10 || buffer[1] != ',')
Incomplete(got) == Len(got) < PayloadLen \/ got[2] # ","

\* Payload with desc->synced = 1 set before the payload is examined
PayloadLockEarly ==
    /\ pc = "payload"
    /\ LET got == ReadN(PayloadLen)
       IN  /\ pos' = pos + Len(got)
           /\ waits' = IF Len(got) = 0 THEN Bump(waits) ELSE waits
           /\ shortReads' = IF Len(got) < PayloadLen
                            THEN shortReads + 1 ELSE shortReads
           /\ IF Incomplete(got)
              THEN /\ Return(0)
                   /\ synced' = IF rev = "desc" THEN 1 ELSE synced
                   /\ UNCHANGED <<data, nDec, decBuf, decLen>>
              ELSE /\ data' = DecodePayload(got)
                   /\ synced' = IF rev = "desc" THEN 1 ELSE synced
                   /\ nDec' = nDec + 1
                   /\ decBuf' = pattern \o got
                   /\ decLen' = FrameLen
                   /\ Return(1)
    /\ hups' = Eof(hups)
    /\ polled' = FALSE
    /\ UNCHANGED <<mainv, rev, stream, arrived, link, running, entrySync, entryRun,
                   desyncPos, partial, entryData, ioErr>>

\* read(fd, buffer, 10) after the marker: incomplete (return 0) or decoded
Payload ==
    /\ pc = "payload"
    /\ LET got == ReadN(PayloadLen)
       IN  /\ pos' = pos + Len(got)
           /\ waits' = IF Len(got) = 0 THEN Bump(waits) ELSE waits
           /\ shortReads' = IF Len(got) < PayloadLen
                            THEN shortReads + 1 ELSE shortReads
           /\ IF Incomplete(got)
              THEN /\ Return(0)
                   /\ UNCHANGED <<data, synced, nDec, decBuf, decLen>>
              ELSE /\ data' = DecodePayload(got)
                   /\ synced' = IF rev = "desc" THEN 1 ELSE synced
                   /\ nDec' = nDec + 1
                   /\ decBuf' = pattern \o got
                   /\ decLen' = FrameLen
                   /\ Return(1)
    /\ hups' = Eof(hups)
    /\ polled' = FALSE
    /\ UNCHANGED <<mainv, rev, stream, arrived, link, running, entrySync, entryRun,
                   desyncPos, partial, entryData, ioErr>>

\* while (bytes_read < sizeof(buffer) && *running)
LkLoop ==
    /\ pc = "lkloop"
    /\ pc' = IF bytes_read < FrameLen /\ running = 1 THEN "lkread" ELSE "verify"
    /\ UNCHANGED <<mainv, rev, stream, arrived, pos, link, running, synced, index,
                   bytes_read, buffer, data, ret, hist, sys>>

\* n = read(...) < 0: desc->synced = 0; return n
LkReadErr ==
    /\ pc = "lkread"
    /\ link = "down"
    /\ synced' = 0
    /\ Return(-1)
    /\ UNCHANGED <<mainv, rev, stream, arrived, pos, link, running, data, hist, hups, polled>>
    /\ ioErr' = TRUE

\* StoreAt without the offset: every read stored at the start of buffer
StoreAtStart(buf, at, got) ==
    [i \in 1..FrameLen |-> IF i <= Len(got) THEN got[i] ELSE buf[i]]

\* buffer + bytes_read: where the n bytes of this read are stored
StoreAt(buf, at, got) ==
    [i \in 1..FrameLen |->
        IF i > at /\ i <= at + Len(got) THEN got[i - at] ELSE buf[i]]

\* n = read(fd, buffer + bytes_read, sizeof(buffer) - bytes_read); bytes_read += n
LkRead ==
    /\ pc = "lkread"
    /\ LET got == ReadN(FrameLen - bytes_read)
       IN  /\ buffer' = StoreAt(buffer, bytes_read, got)
           /\ bytes_read' = bytes_read + Len(got)
           /\ pos' = pos + Len(got)
           /\ waits' = IF Len(got) = 0 THEN Bump(waits) ELSE waits
           /\ partial' = (partial \/ Len(got) < FrameLen - bytes_read)
    /\ pc' = "lkloop"
    /\ hups' = Eof(hups)
    /\ polled' = FALSE
    /\ UNCHANGED <<mainv, rev, stream, arrived, link, running, synced, index, data,
                   ret, nDec, decBuf, decLen, entrySync, entryRun, desyncPos,
                   shortReads, entryData, ioErr>>

\* the for loop over the marker: a mismatch at i ends the call with -1 after
\* the iterations before i have stored the fields; with no mismatch the code
\* falls out of the else-if and goes back to while (*running)
Verify ==
    /\ pc = "verify"
    /\ LET m == FirstMismatch(buffer)
       IN  /\ data' = IF m = 1 THEN data ELSE DecodeLocked(buffer)
           /\ IF m # 0
              THEN /\ synced' = 0
                   /\ desyncPos' = pos
                   /\ Return(-1)
                   /\ UNCHANGED <<nDec, decBuf, decLen>>
              ELSE /\ pc' = "loop"
                   /\ nDec' = nDec + 1
                   /\ decBuf' = buffer
                   /\ decLen' = bytes_read
                   /\ UNCHANGED <<synced, ret, index, bytes_read, buffer,
                                  desyncPos>>
    /\ UNCHANGED <<mainv, rev, stream, arrived, pos, link, running, entrySync, entryRun,
                   waits, shortReads, partial, entryData, sys>>

Next ==
    \/ Arrive
    \/ LinkDown
    \/ Cancel
    \/ Call
    \/ LoopCheckFd
    \/ LoopCheckDesc
    \/ PollFail
    \/ PollTimeout
    \/ PollHup
    \/ PollIn
    \/ ScanReadErr
    \/ ScanRead
    \/ PayloadErr
    \/ Payload
    \/ LkLoop
    \/ LkReadErr
    \/ LkRead
    \/ Verify

Spec == Init /\ [][Next]_vars

----------------------------------------------------------------------------
(* The caller: main of console.c and thermo_client_init.  With revision      *)
(* "desc" the same loop hands the handle desc to thermo_client_init and      *)
(* thermo_client_read.  thermo_client_read is taken here by its result and   *)
(* its effect on desc->synced.                                               *)

\* the reader's variables main never touches
rdv == <<stream, arrived, pos, link, pc, index, bytes_read, buffer, data, ret,
         hist, sys>>

\* open(2) returns the lowest descriptor that is not open
FreeFds == (0..MaxFd) \ openFds

LowestFree == CHOOSE d \in FreeFds : \A e \in FreeFds : d <= e

\* CloseFd that leaves the descriptor open
CloseFdNot(fds, d) == fds

\* close(d) on the descriptor table
CloseFd(fds, d) == fds \ {d}

\* what a call of thermo_client_read may do to desc->synced, by its result:
\* 1 locks a Scanning handle or (cancellation) leaves it as it is, 0 comes
\* from Scanning only, -1 leaves it or desynchronises
SyncedAfter(r) ==
    IF rev = "fd" THEN {synced}
    ELSE IF r = 1 THEN {synced, 1}
    ELSE IF r = 0 THEN {0}
    ELSE {synced, 0}

InitMain ==
    /\ rev \in {"fd", "desc"}
    /\ stream = FT
    /\ ReaderInit
    /\ mpc = "start"
    /\ fd = 0
    /\ thermo_fd = -1
    /\ init_fd = -1
    /\ desc_fd = -1
    /\ openFds = Std
    /\ preOpen = Std
    /\ preDesc = <<-1, 0>>
    /\ badClose = {}
    /\ tpc = "none"
    /\ badWrite = {}

\* thermo_client_init returns r to main: fd = thermo_client_init(argv[1])
InitReturn(r) ==
    /\ fd' = r
    /\ init_fd' = -1
    /\ mpc' = "chk"

\* pthread_create(&input_thread, ...): on failure goto end
MainStart ==
    /\ mpc = "start"
    /\ \E created \in BOOLEAN :
          /\ mpc' = IF created THEN "outer" ELSE "end"
          /\ tpc' = IF created THEN "loop" ELSE "none"
    /\ UNCHANGED <<rev, running, synced, rdv, badWrite, fd, thermo_fd, init_fd, desc_fd,
                   openFds, preOpen, preDesc, badClose>>

\* SIGINT: sighandler clears running
MainCancel ==
    /\ mpc # "done"
    /\ running = 1
    /\ running' = 0
    /\ UNCHANGED <<rev, synced, rdv, mainv>>

\* while (running) of the reconnect loop
OuterCheck ==
    /\ mpc = "outer"
    /\ mpc' = IF running = 1 THEN "open" ELSE "end"
    /\ preOpen' = openFds
    /\ preDesc' = <<desc_fd, synced>>
    /\ UNCHANGED <<rev, running, synced, rdv, thr, fd, thermo_fd, init_fd, desc_fd,
                   openFds, badClose>>

\* int fd = open(port, O_RDWR); if (fd == -1) return -1;
InitOpen ==
    /\ mpc = "open"
    /\ \E opened \in BOOLEAN :
          IF opened /\ FreeFds # {}
          THEN /\ init_fd' = LowestFree
               /\ openFds' = openFds \cup {LowestFree}
               /\ mpc' = "getattr"
               /\ UNCHANGED fd
          ELSE /\ InitReturn(-1)
               /\ UNCHANGED openFds
    /\ UNCHANGED <<rev, running, synced, rdv, thr, thermo_fd, desc_fd, preOpen,
                   preDesc, badClose>>

\* if (tcgetattr(fd, &options) < 0) { close(fd); return -1; }
InitGetattr ==
    /\ mpc = "getattr"
    /\ \E got \in BOOLEAN :
          IF got
          THEN /\ mpc' = "setattr"
               /\ UNCHANGED <<fd, init_fd, openFds>>
          ELSE /\ openFds' = CloseFd(openFds, init_fd)
               /\ InitReturn(-1)
    /\ UNCHANGED <<rev, running, synced, rdv, thr, thermo_fd, desc_fd, preOpen,
                   preDesc, badClose>>

\* if (tcsetattr(fd, TCSANOW, &options) < 0) { close(fd); return -1; }
\* desc->fd = fd; desc->synced = 0; return fd;
InitSetattr ==
    /\ mpc = "setattr"
    /\ \E set \in BOOLEAN :
          IF set
          THEN /\ desc_fd' = IF rev = "desc" THEN init_fd ELSE desc_fd
               /\ synced' = IF rev = "desc" THEN 0 ELSE synced
               /\ InitReturn(init_fd)
               /\ UNCHANGED openFds
          ELSE /\ openFds' = CloseFd(openFds, init_fd)
               /\ InitReturn(-1)
               /\ UNCHANGED <<desc_fd, synced>>
    /\ UNCHANGED <<rev, running, rdv, thr, thermo_fd, preOpen, preDesc, badClose>>

\* if (fd < 0) { ...; sleep(1); continue; } thermo_fd = fd;
MainChk ==
    /\ mpc = "chk"
    /\ IF fd < 0
       THEN /\ mpc' = "outer"
            /\ UNCHANGED thermo_fd
       ELSE /\ thermo_fd' = fd
            /\ mpc' = "inner"
    /\ UNCHANGED <<rev, running, synced, rdv, thr, fd, init_fd, desc_fd, openFds,
                   preOpen, preDesc, badClose>>

\* while (running) of the read loop
InnerCheck ==
    /\ mpc = "inner"
    /\ mpc' = IF running = 1 THEN "read" ELSE "outer"
    /\ UNCHANGED <<rev, running, synced, rdv, thr, fd, thermo_fd, init_fd, desc_fd,
                   openFds, preOpen, preDesc, badClose>>

\* int result = thermo_client_read(...); if (result < 0) break;
MainRead ==
    /\ mpc = "read"
    /\ \E result \in {-1, 0, 1} :
          /\ result = 0 => synced = 0
          /\ synced' \in SyncedAfter(result)
          /\ mpc' = IF result < 0 THEN "outer" ELSE "inner"
    /\ UNCHANGED <<rev, running, rdv, thr, fd, thermo_fd, init_fd, desc_fd, openFds,
                   preOpen, preDesc, badClose>>

\* end: close(fd); return 0;
MainEnd ==
    /\ mpc = "end"
    /\ openFds' = CloseFd(openFds, fd)
    /\ badClose' = IF fd \in openFds THEN badClose ELSE badClose \cup {fd}
    /\ mpc' = "done"
    /\ UNCHANGED <<rev, running, synced, rdv, thr, fd, thermo_fd, init_fd, desc_fd,
                   preOpen, preDesc>>

\* the variables of main the input thread never touches, thermo_fd apart
mnv == <<mpc, fd, init_fd, desc_fd, openFds, preOpen, preDesc, badClose>>

\* read_input: while (running)
ThreadLoop ==
    /\ tpc = "loop"
    /\ mpc # "done"
    /\ tpc' = IF running = 1 THEN "input" ELSE "done"
    /\ UNCHANGED <<rev, running, synced, rdv, mnv, thermo_fd, badWrite>>

\* mvwgetnstr returns a line: "/quit" clears running and ends the thread, an
\* empty line goes back to the loop, a command goes on to the test of thermo_fd
ThreadInput ==
    /\ tpc = "input"
    /\ mpc # "done"
    /\ \E input_buf \in {"/quit", "", "cmd"} :
          /\ tpc' = IF input_buf = "/quit" THEN "done"
                    ELSE IF input_buf = "" THEN "loop" ELSE "test"
          /\ running' = IF input_buf = "/quit" THEN 0 ELSE running
    /\ UNCHANGED <<rev, synced, rdv, mnv, thermo_fd, badWrite>>

\* if (thermo_fd && strlen(input_buf) > 0)
ThreadTest ==
    /\ tpc = "test"
    /\ mpc # "done"
    /\ tpc' = IF thermo_fd # 0 THEN "write" ELSE "loop"
    /\ UNCHANGED <<rev, running, synced, rdv, mnv, thermo_fd, badWrite>>

\* write(thermo_fd, input_buf, strlen(input_buf))
ThreadWrite ==
    /\ tpc = "write"
    /\ mpc # "done"
    /\ badWrite' = IF thermo_fd \in openFds \ Std
                   THEN badWrite ELSE badWrite \cup {thermo_fd}
    /\ tpc' = "loop"
    /\ UNCHANGED <<rev, running, synced, rdv, mnv, thermo_fd>>

NextMain ==
    \/ MainStart
    \/ MainCancel
    \/ OuterCheck
    \/ InitOpen
    \/ InitGetattr
    \/ InitSetattr
    \/ MainChk
    \/ InnerCheck
    \/ MainRead
    \/ MainEnd
    \/ ThreadLoop
    \/ ThreadInput
    \/ ThreadTest
    \/ ThreadWrite

SpecMain == InitMain /\ [][NextMain]_vars

----------------------------------------------------------------------------
(* Helpers of the properties *)

InCall == pc \notin {"init", "ret"}

Returned(r) == pc = "ret" /\ ret = r

\* the record a frame encodes: kind at offset 6, source at 8..11, value at 12..15
FieldsOf(f) ==
    [type |-> f[7], source |-> SubSeq(f, 9, 12), value |-> SubSeq(f, 13, 16)]

\* the frame a record encodes
Encode(r) == pattern \o <<r.type, ",">> \o r.source \o r.value

WellFormed(f) ==
    /\ Len(f) = FrameLen
    /\ SubSeq(f, 1, pattern_length) = pattern
    /\ f[7] \in {"T", "H"}
    /\ f[8] = ","

\* the call decoded a frame of which all 16 bytes came from the tty
DecodedWhole == nDec > 0 /\ decLen = FrameLen

----------------------------------------------------------------------------
(* C1: thermo_client_read returns 1 (Record) only if that call consumed a    *)
(* complete 16-byte frame and the output record holds that frame's fields;   *)
(* a call that ends because of cancellation never returns Record.            *)
C1_RecordOnlyForFrame ==
    Returned(1) => (DecodedWhole /\ data = FieldsOf(decBuf))

(* C2: in Locked state a read that has accumulated 16 bytes starting with    *)
(* the marker returns Record from that same call: a call that has decoded a  *)
(* frame has returned 1 and the handle is Locked, so no frame is consumed    *)
(* without being returned.                                                   *)
C2_LockedFrameReturned ==
    DecodedWhole => (Returned(1) /\ (rev = "desc" => synced = 1))

(* C3: once cancellation is requested on a silent port, the call in progress *)
(* returns after at most one further bounded wait.                           *)
C3_CancelBounded ==
    (InCall /\ entryRun = 1) => waits <= 1


\* the stream is garbage g (holding no marker) followed by one well-formed frame
GarbageThenFrame(g) ==
    /\ g \in Garbage
    /\ Len(stream) = Len(g) + FrameLen
    /\ SubSeq(stream, 1, Len(g)) = g
    /\ WellFormed(SubSeq(stream, Len(g) + 1, Len(stream)))

\* nothing disturbed the reads so far: line up, no cancellation, and every
\* payload read got its 10 bytes at once (the frame was delivered whole)
Undisturbed == link = "up" /\ running = 1 /\ shortReads = 0

(* C4: garbage of any content (not holding the marker, possibly ending in a  *)
(* proper prefix of it) followed by a well-formed frame delivered whole: the *)
(* Scanning reads return no Record from the garbage, and once the stream is  *)
(* consumed the frame's Record has been returned.                            *)
C4_GarbageSkipped ==
    \A g \in Garbage :
        (GarbageThenFrame(g) /\ Undisturbed) =>
            LET f == SubSeq(stream, Len(g) + 1, Len(stream))
            IN  /\ Returned(1) => data = FieldsOf(f)
                /\ pos = Len(stream) => data = FieldsOf(f)

(* C5: for a well-formed frame the Record returned holds the frame's kind,   *)
(* source and value byte for byte, so that encoding the Record gives back    *)
(* the 16 bytes read from the stream, after the Scanning decode and after    *)
(* the Locked decode alike.                                                  *)
C5_RoundTrip ==
    (Returned(1) /\ DecodedWhole /\ WellFormed(decBuf)) =>
        /\ Encode(data) = decBuf
        /\ decBuf = SubSeq(stream, pos - FrameLen + 1, pos)

\* a Locked read decoded a whole well-formed frame and the call returned 1
C5_Witness ==
    /\ Returned(1)
    /\ DecodedWhole
    /\ WellFormed(decBuf)
    /\ entrySync = 1
    /\ data = FieldsOf(FC)

\* the accumulated buffer disagrees with the marker somewhere in positions 0..5
MarkerBroken(b) == \E i \in 1..pattern_length : b[i] # pattern[i]

(* C6: in Locked state, when the 16 accumulated bytes differ from the marker *)
(* in any of the first 6 positions, the verification step sets syncState to  *)
(* Scanning and the call returns Error; when all 6 match, the step reports   *)
(* no desync.                                                                *)
C6_FullPrefixCheck ==
    [][(pc = "verify" /\ pc' # "verify" /\ bytes_read = FrameLen) =>
          IF MarkerBroken(buffer)
          THEN synced' = 0 /\ pc' = "ret" /\ ret' = -1
          ELSE synced' = 1 /\ pc' # "ret" /\ desyncPos' = desyncPos]_vars

\* a Locked read took in 16 bytes whose only wrong marker byte is the last
\* one, reported the desync and left the handle Scanning
C6_Witness ==
    /\ stream = FT \o Corrupt(FC, pattern_length)
    /\ pos = Len(stream)
    /\ desyncPos = Len(stream)
    /\ Returned(-1)
    /\ synced = 0
    /\ link = "up"
    /\ running = 1

\* from offset p on the stream is n >= 2 well-formed frames back to back
FramesFrom(p) ==
    /\ p >= 0
    /\ Len(stream) - p >= 2 * FrameLen
    /\ (Len(stream) - p) % FrameLen = 0
    /\ \A k \in 0..((Len(stream) - p) \div FrameLen - 1) :
          WellFormed(SubSeq(stream, p + k * FrameLen + 1, p + (k + 1) * FrameLen))

(* C7: after a Locked read reported a desync, if the rest of the stream is   *)
(* well-formed frames back to back, reads on the same handle return a Record *)
(* and lock the handle again, whatever the frames' source and value bytes:   *)
(* once those frames are consumed (line up, no cancellation, at most one     *)
(* payload read torn) the handle is Locked again.                            *)
C7_Resync ==
    (/\ FramesFrom(desyncPos)
     /\ pos = Len(stream)
     /\ link = "up"
     /\ running = 1
     /\ shortReads <= 1) => synced = 1

(* C8: a frame whose separator byte (offset 7) is not ',' never produces a   *)
(* Record, in Scanning or in Locked state: a call that returns 1 after       *)
(* decoding a whole frame decoded one whose separator is ','.                *)
C8_SeparatorChecked ==
    (Returned(1) /\ DecodedWhole) => decBuf[8] = ","

(* C9: every Record returned by thermo_client_read has kind 'T' or 'H'; a    *)
(* frame with any other kind byte is not returned as a Record.               *)
C9_KindChecked ==
    (Returned(1) /\ DecodedWhole) => data.type \in {"T", "H"}

(* C10 as stated: a well-formed frame delivered across two underlying reads, *)
(* split at any byte position, decodes to the same Record as when its 16     *)
(* bytes arrive in one read: with the line up, no cancellation and at most   *)
(* one short payload read, once the frame is consumed its Record is in the   *)
(* output record.                                                            *)
C10_SplitAnywhere ==
    (/\ stream \in GoodFrames
     /\ pos = Len(stream)
     /\ link = "up"
     /\ running = 1
     /\ shortReads <= 1) => data = FieldsOf(stream)

(* C10 amended: in Locked state the reads of a frame, however the 16 bytes   *)
(* are split over them and with reads of 0 bytes in between, are accumulated *)
(* in stream order into the zero-initialised 16-byte buffer, and the fields  *)
(* stored after verification are those of the 16 bytes read, whatever the    *)
(* split.                                                                    *)
C10_LockedAccumulation ==
    /\ pc \in {"lkloop", "lkread", "verify"} =>
          /\ bytes_read <= FrameLen
          /\ buffer = [i \in 1..FrameLen |->
                          IF i <= bytes_read
                          THEN stream[pos - bytes_read + i] ELSE Nul]
    /\ (pc = "loop" /\ DecodedWhole) =>
          /\ decBuf = SubSeq(stream, pos - FrameLen + 1, pos)
          /\ data = FieldsOf(decBuf)

\* a Locked read put a well-formed frame together from several reads
C10_Witness ==
    /\ pc = "loop"
    /\ DecodedWhole
    /\ entrySync = 1
    /\ partial
    /\ WellFormed(decBuf)
    /\ data = FieldsOf(FC)

----------------------------------------------------------------------------
\* main is inside thermo_client_init
InInit == mpc \in {"open", "getattr", "setattr"}

(* C11: thermo_client_init has no partial success.  When it returns failure  *)
(* (open, tcgetattr or tcsetattr failed) the descriptors open are those open *)
(* before the call, so a descriptor it opened is closed again, and the       *)
(* caller's handle (desc->fd, desc->synced) is as before; when it succeeds   *)
(* the value returned is a newly opened descriptor and the handle holds it   *)
(* with syncState Scanning.                                                  *)
C11_InitAllOrNothing ==
    [][(InInit /\ mpc' = "chk") =>
          IF fd' < 0
          THEN /\ openFds' = preOpen
               /\ <<desc_fd', synced'>> = preDesc
          ELSE /\ fd' \notin preOpen
               /\ openFds' = preOpen \cup {fd'}
               /\ rev = "desc" => (desc_fd' = fd' /\ synced' = 0)]_vars

\* a re-initialisation of a Locked handle failed after its open succeeded
\* (the descriptor table shows the earlier descriptor only): handle untouched
C11_Witness ==
    /\ rev = "desc"
    /\ mpc = "chk"
    /\ fd = -1
    /\ preDesc = <<3, 1>>
    /\ desc_fd = 3
    /\ synced = 1
    /\ openFds = Std \cup {3}

(* C12: in the reconnect loop every descriptor a successful init returned is *)
(* closed exactly once: never two port descriptors open at once, close never *)
(* given a value that is not an open descriptor, and none left open when     *)
(* main is done.                                                             *)
C12_ClosedExactlyOnce ==
    /\ Cardinality(openFds \ Std) <= 1
    /\ badClose = {}
    /\ mpc = "done" => openFds \subseteq Std

(* C13: when poll fails, poll reports an error or hangup event, or a read    *)
(* returns an error, the call in which it happened returns Error (a negative *)
(* value), in Scanning and in Locked state.                                  *)
C13_ErrorReturned ==
    ioErr => (pc = "ret" /\ ret < 0)

\* the read of a Locked accumulation failed and the call returned Error
C13_Witness ==
    /\ ioErr
    /\ entrySync = 1
    /\ polled
    /\ Returned(-1)
    /\ link = "down"

(* C15: in Scanning state, after the marker has matched, a payload read that *)
(* returns fewer than 10 bytes or whose separator byte is not ',' ends the   *)
(* call with NoRecordYet, syncState stays Scanning, and a call starts its    *)
(* scan with match index 0.                                                  *)
C15_IncompleteFrame ==
    [][/\ (/\ pc = "payload"
           /\ pc' # "payload"
           /\ ~ioErr'
           /\ \/ Len(ReadN(PayloadLen)) < PayloadLen
              \/ ReadN(PayloadLen)[2] # ",") =>
              (pc' = "ret" /\ ret' = 0 /\ synced = 0 /\ synced' = 0)
       /\ (pc \in {"init", "ret"} /\ pc' = "loop") => index' = 0]_vars

\* the payload of a frame with a wrong separator was read whole and the call
\* returned NoRecordYet, the handle Scanning
C15_Witness ==
    /\ rev = "desc"
    /\ stream = FS
    /\ pos = Len(stream)
    /\ shortReads = 0
    /\ Returned(0)
    /\ synced = 0
    /\ link = "up"

(* C16: after a marker whose frame was incomplete the scan resumes at the    *)
(* byte right after that marker, no later byte dropped: when "CHRIS," is     *)
(* directly followed by a complete frame, delivered whole, that frame's      *)
(* Record is in the output record once the stream is consumed.               *)
C16_ResumeAfterMarker ==
    (/\ stream \in TornStreams
     /\ pos = Len(stream)
     /\ Undisturbed) => data = FieldsOf(FT)

(* C17: when the line hangs up while a call is in progress, that call        *)
(* returns Error: with no cancellation requested, a call in which a read    *)
(* met the hung-up line does not return NoRecordYet or Record, and it does   *)
(* not go on reading (a second read of 0 bytes) without noticing.            *)
C17_HangupReturnsError ==
    running = 1 =>
        /\ (pc = "ret" /\ hups > 0) => ret < 0
        /\ hups <= 1

(* C18: every read of thermo_client_read (the 1-byte scan read, the 10-byte  *)
(* payload read, each read of the Locked accumulation) is immediately        *)
(* preceded by its own poll.                                                 *)
C18_PollBeforeRead ==
    pc \in {"scan", "payload", "lkread"} => polled

(* C19: a call that returns Error or NoRecordYet leaves the output record as *)
(* it was before the call; a Locked read that finds a marker mismatch at any *)
(* of the positions 0..5 has written no field.  Stated for the calls that    *)
(* were not cancelled and decoded no frame before they failed.               *)
C19_NoWriteOnFailure ==
    (pc = "ret" /\ ret <= 0 /\ nDec = 0 /\ running = 1) => data = entryData

(* C20: syncState falls from Locked to Scanning only in a call that returns  *)
(* Error, and only after a read error or a marker mismatch on a buffer of    *)
(* which all 16 bytes were received; cancellation during the accumulation    *)
(* does not desynchronise.                                                   *)
C20_DesyncOnlyOnEvidence ==
    [][(synced = 1 /\ synced' = 0) =>
          /\ pc' = "ret"
          /\ ret' < 0
          /\ ioErr' \/ bytes_read = FrameLen]_vars

(* C21: a handle not yet read from is Scanning; syncState goes from Scanning *)
(* to Locked only in the step that ends a call with Record for a frame the   *)
(* byte scan found; a call that returns NoRecordYet leaves syncState as it   *)
(* was at call entry; and syncState does not change between calls.           *)
C21_SyncLifecycle ==
    [][/\ pc = "init" => synced = 0
       /\ (synced = 0 /\ synced' = 1) =>
             /\ pc = "payload"
             /\ index = pattern_length
             /\ pc' = "ret"
             /\ ret' = 1
             /\ data' = FieldsOf(decBuf')
       /\ (pc # "ret" /\ pc' = "ret" /\ ret' = 0) => synced' = entrySync
       /\ pc \in {"init", "ret"} => synced' = synced]_vars

\* a Scanning call found a frame by the byte scan, returned Record and left
\* the handle Locked
C21_Witness ==
    /\ rev = "desc"
    /\ Returned(1)
    /\ entrySync = 0
    /\ synced = 1
    /\ DecodedWhole
    /\ running = 1

(* C22: in Scanning state the match index lies in 0..6; a byte equal to the  *)
(* marker byte at the index advances it by one, any other byte resets it to  *)
(* zero without being compared with the first marker byte; the payload read  *)
(* is issued exactly when the index has reached 6.                           *)
C22_MatchIndex ==
    [][/\ index \in 0..pattern_length
       /\ pc = "payload" <=> index = pattern_length
       /\ (pc = "scan" /\ pos' = pos + 1) =>
             /\ index' = IF stream[pos + 1] = pattern[index + 1]
                         THEN index + 1 ELSE 0
             /\ pc' = "payload" <=> index' = pattern_length]_vars

\* the frame's 'C' came while the index was 1 (after a garbage 'C'): the index
\* is back at 0 and the scan goes on with the next byte
C22_Witness ==
    /\ stream = <<"C">> \o FT
    /\ pos = 2
    /\ index = 0
    /\ pc = "loop"
    /\ synced = 0

(* C23: the input thread of the console writes commands only to a descriptor *)
(* that is open through a successful thermo_client_init: never to the        *)
(* initial value -1 and never to a descriptor that has been closed, whatever *)
(* the interleaving with main's reconnect loop.                              *)
C23_WritesToOpenPort ==
    badWrite = {}

====
